---------------------------- MODULE Spec2Model ----------------------------
(***************************************************************************)
(* Weather RPC demo: server.py publishes one WeatherService behind a       *)
(* multiprocessing manager on a Unix socket, client.py runs three          *)
(* concurrent fetch_weather tasks against it.                              *)
(*                                                                         *)
(* One server process (main, the accepter thread, one handler thread per   *)
(* accepted connection), the upstream weather API as an environment that   *)
(* answers or never answers, and one client process (main plus its pool    *)
(* of fetch_weather tasks).                                                *)
(***************************************************************************)
EXTENDS Integers, Sequences, FiniteSets, TLC

(***************************************************************************)
(* Program constants                                                       *)
(***************************************************************************)

\* client.py: range(3) tasks on ThreadPoolExecutor(max_workers=3)
NumClients == 3

Clients == 1..NumClients

\* server.py: SOCKET_PATH
SOCKET_PATH == ".weather_manager.sock"

\* server.py: AUTHKEY = b'weather_secret', as its bytes
AUTHKEY == <<119, 101, 97, 116, 104, 101, 114, 95, 115, 101, 99, 114, 101, 116>>

\* A key other than AUTHKEY, as a leftover descriptor of another build holds
OtherKey == <<111, 108, 100>>

\* The typeid both sides register
ServiceTypeId == "get_weather_service"

\* client.py: SEATTLE_LATITUDE, SEATTLE_LONGITUDE (in 1/10000 degree)
SEATTLE_LATITUDE == 476062

SEATTLE_LONGITUDE == -1223321

Seattle == [latitude |-> SEATTLE_LATITUDE, longitude |-> SEATTLE_LONGITUDE]

(***************************************************************************)
(* Bounds of the model                                                     *)
(***************************************************************************)

\* Locations a caller may ask for besides Seattle: (k, -k) for k in 1..NumOtherLocations
NumOtherLocations == 1

Locations == {Seattle} \cup {[latitude |-> k, longitude |-> -k] : k \in 1..NumOtherLocations}

None == "None"

(***************************************************************************)
(* base64 and the connection descriptor (.manager_connection)              *)
(***************************************************************************)

\* The '=' padding character; the other characters are their 6-bit values
Pad == 64

RECURSIVE B64Encode(_)
\* base64.b64encode: three bytes to four characters, '=' padded
B64Encode(bs) ==
    IF Len(bs) = 0 THEN <<>>
    ELSE IF Len(bs) = 1 THEN
        <<bs[1] \div 4, (bs[1] % 4) * 16, Pad, Pad>>
    ELSE IF Len(bs) = 2 THEN
        <<bs[1] \div 4, (bs[1] % 4) * 16 + bs[2] \div 16, (bs[2] % 16) * 4, Pad>>
    ELSE
        <<bs[1] \div 4, (bs[1] % 4) * 16 + bs[2] \div 16,
          (bs[2] % 16) * 4 + bs[3] \div 64, bs[3] % 64>>
        \o B64Encode(SubSeq(bs, 4, Len(bs)))

RECURSIVE B64Decode(_)
\* base64.b64decode: four characters to up to three bytes
B64Decode(cs) ==
    IF Len(cs) < 4 THEN <<>>
    ELSE
        LET b1 == cs[1] * 4 + cs[2] \div 16
            b2 == (cs[2] % 16) * 16 + cs[3] \div 4
            b3 == (cs[3] % 4) * 64 + cs[4]
            rest == B64Decode(SubSeq(cs, 5, Len(cs)))
        IN  IF cs[3] = Pad THEN <<b1>>
            ELSE IF cs[4] = Pad THEN <<b1, b2>>
            ELSE <<b1, b2, b3>> \o rest

\* write_connection_info: the descriptor the server dumps as JSON
Descriptor(socket_path, authkey) ==
    [socket_path |-> socket_path, authkey |-> B64Encode(authkey)]

\* load_connection_info: (socket_path, authkey) read back from the descriptor
LoadDescriptor(d) == [socket_path |-> d.socket_path, authkey |-> B64Decode(d.authkey)]

\* A file: absent, or present with its content
NoFile == [exists |-> FALSE]

File(content) == [exists |-> TRUE, content |-> content]

\* What .manager_connection may hold before the server starts
LeftoverDescriptors ==
    {NoFile, File(Descriptor(SOCKET_PATH, AUTHKEY)), File(Descriptor(SOCKET_PATH, OtherKey))}

(***************************************************************************)
(* The upstream weather API (environment) and its payloads                 *)
(***************************************************************************)

\* The keys of one upstream forecast period
PeriodFields ==
    {"number", "name", "startTime", "endTime", "isDaytime", "temperature",
     "temperatureUnit", "temperatureTrend", "windSpeed", "windDirection",
     "icon", "shortForecast", "detailedForecast"}

\* WeatherForecast's fields after request, each with the period key it is read from
FieldKey ==
    [number |-> "number", name |-> "name", start_time |-> "startTime",
     end_time |-> "endTime", is_daytime |-> "isDaytime",
     temperature |-> "temperature", temperature_unit |-> "temperatureUnit",
     temperature_trend |-> "temperatureTrend", wind_speed |-> "windSpeed",
     wind_direction |-> "windDirection", icon |-> "icon",
     short_forecast |-> "shortForecast", detailed_forecast |-> "detailedForecast"]

\* The fields get_weather reads with period[...] (a missing key raises)
RequiredFields == DOMAIN FieldKey \ {"temperature_trend"}

\* The grid the upstream API assigns to a coordinate pair
GridOf(lat, lon) == [gridId |-> "SEW", gridX |-> lat, gridY |-> lon]

\* f"{BASE_URL}/points/{latitude},{longitude}"
PointsUrl(latitude, longitude) == <<"points", latitude, longitude>>

\* f"{BASE_URL}/gridpoints/{office}/{grid_x},{grid_y}/forecast"
ForecastUrl(office, grid_x, grid_y) == <<"gridpoints", office, grid_x, grid_y>>

\* The values temperatureTrend takes when the key is present (null, empty, a word)
TrendValues == {None, "rising"}

\* The upstream value of period key k at the grid of url; n is the period's number
PeriodValue(url, n, k) ==
    IF k = "number" THEN n
    ELSE IF k = "temperatureUnit" THEN "F"
    ELSE IF k = "isDaytime" THEN TRUE
    ELSE <<k, url[3], url[4]>>

\* A complete period of the grid of url, with the given trend
FullPeriod(url, n, trend) ==
    [k \in PeriodFields |->
        IF k = "temperatureTrend" THEN trend ELSE PeriodValue(url, n, k)]

\* A period without the keys in missing
PeriodWithout(url, n, missing) ==
    [k \in PeriodFields \ missing |->
        IF k = "temperatureTrend" THEN "rising" ELSE PeriodValue(url, n, k)]

\* An HTTP exchange ends in a network failure or in a response with a status
\* and a body; the body is JSON (a dict) or not JSON at all
NetworkFailure == [kind |-> "failure"]

Response(status, body) == [kind |-> "response", status |-> status, body |-> body]

\* A body that parses as JSON, and one that does not
Json(data) == [json |-> TRUE, data |-> data]

Malformed == [json |-> FALSE]

\* An answer of the API with the fault it carries: "upstream" (the exchange
\* failed: no response, a non-2xx status, a body that is not JSON), "shape"
\* (JSON without the expected keys) or "none"
Answer(fault, resp) == [fault |-> fault, resp |-> resp]

\* What the API may answer to a points request
PointsAnswers(url) ==
    {Answer("upstream", NetworkFailure),
     Answer("upstream", Response(500, Malformed)),
     Answer("upstream", Response(404, Json([detail |-> "Not Found"]))),
     Answer("upstream", Response(200, Malformed)),
     Answer("shape", Response(200, Json([type |-> "Feature"]))),
     Answer("shape", Response(200, Json([properties |-> [gridId |-> "SEW", gridX |-> url[2]]]))),
     Answer("none", Response(200, Json([properties |-> GridOf(url[2], url[3])])))}

\* A forecast body with the given periods
Periods(ps) == Response(200, Json([properties |-> [periods |-> ps]]))

\* What the API may answer to a forecast request: a period without
\* temperatureTrend is a complete answer, one without another key is not
ForecastAnswers(url) ==
    {Answer("upstream", NetworkFailure),
     Answer("upstream", Response(500, Malformed)),
     Answer("upstream", Response(200, Malformed)),
     Answer("shape", Response(200, Json([type |-> "Feature"]))),
     Answer("shape", Response(200, Json([properties |-> [units |-> "us"]]))),
     Answer("shape", Periods(<<>>)),
     Answer("none", Periods(<<FullPeriod(url, 1, "rising"), FullPeriod(url, 2, None)>>)),
     Answer("none", Periods(<<PeriodWithout(url, 1, {"temperatureTrend"})>>))}
    \cup {Answer("none", Periods(<<FullPeriod(url, 1, t)>>)) : t \in TrendValues}
    \cup {Answer("shape", Periods(<<PeriodWithout(url, 1, {k})>>)) :
            k \in PeriodFields \ {"temperatureTrend"}}

(***************************************************************************)
(* WeatherService (server.py)                                              *)
(***************************************************************************)

\* A call's outcome: a value returned or an exception raised
Return(v) == [ok |-> TRUE, value |-> v]

Raise(exc) == [ok |-> FALSE, exc |-> exc]

\* session.get + raise_for_status + response.json(): the body, or the exception:
\* ConnectionError, HTTPError and JSONDecodeError of the requests library, named
\* by their common class
HttpJson(resp) ==
    IF resp.kind = "failure" THEN Raise("RequestException")
    ELSE IF resp.status >= 400 /\ resp.status < 600 THEN Raise("RequestException")
    ELSE IF ~resp.body.json THEN Raise("RequestException")
    ELSE Return(resp.body.data)

\* _get_grid_info after the request: (office_id, grid_x, grid_y) or the exception
get_grid_info(resp) ==
    LET data == HttpJson(resp)
    IN  IF ~data.ok THEN data
        ELSE IF "properties" \notin DOMAIN data.value THEN Raise("KeyError")
        ELSE LET properties == data.value.properties
             IN  IF {"gridId", "gridX", "gridY"} \subseteq DOMAIN properties
                 THEN Return(<<properties.gridId, properties.gridX, properties.gridY>>)
                 ELSE Raise("KeyError")

\* _get_forecast after the request: the first period or the exception
get_forecast(resp) ==
    LET data == HttpJson(resp)
    IN  IF ~data.ok THEN data
        ELSE IF "properties" \notin DOMAIN data.value THEN Raise("KeyError")
        ELSE IF "periods" \notin DOMAIN data.value.properties THEN Raise("KeyError")
        ELSE LET periods == data.value.properties.periods
             IN  IF Len(periods) = 0 THEN Raise("IndexError")
                 ELSE Return(periods[1])

\* A lookup that makes an absent key the empty string
PeriodGetOrBlank(period, k) == IF k \in DOMAIN period THEN period[k] ELSE ""

\* period.get('temperatureTrend')
PeriodGet(period, k) == IF k \in DOMAIN period THEN period[k] ELSE None

\* A constructor that reads every key with period.get(...)
MakeForecastWithGet(location, period) ==
    Return(
        [f \in {"request"} \cup DOMAIN FieldKey |->
            IF f = "request" THEN location ELSE PeriodGet(period, FieldKey[f])])

\* WeatherForecast(request=location, number=period['number'], ...)
MakeForecast(location, period) ==
    IF \E f \in RequiredFields : FieldKey[f] \notin DOMAIN period
    THEN Raise("KeyError")
    ELSE Return(
        [f \in {"request"} \cup DOMAIN FieldKey |->
            IF f = "request" THEN location
            ELSE IF f = "temperature_trend" THEN PeriodGet(period, FieldKey[f])
            ELSE period[FieldKey[f]]])

\* get_weather once the forecast response is in: the WeatherForecast or the exception
get_weather(location, resp) ==
    LET period == get_forecast(resp)
    IN  IF ~period.ok THEN period ELSE MakeForecast(location, period.value)

(***************************************************************************)
(* WeatherForecast (shared.py)                                             *)
(***************************************************************************)

\* Python's truth value of an Optional[str]: None and '' are false
Truthy(v) == v \notin {None, ""}

\* A test for None instead of the truth value
IsNotNone(v) == v # None

\* Whether to_human_readable prints the trend line: if self.temperature_trend
HasTrend(v) == Truthy(v)

\* to_human_readable: the lines it joins, each as its label and the values in it
to_human_readable(self) ==
    <<<<"Weather Forecast for Location", self.request.latitude, self.request.longitude>>,
      <<"=", 70>>,
      <<"Period", self.name>>,
      <<"Temperature", self.temperature, self.temperature_unit>>>>
    \o (IF HasTrend(self.temperature_trend)
        THEN <<<<"Temperature Trend", self.temperature_trend>>>>
        ELSE <<>>)
    \o <<<<"Conditions", self.short_forecast>>,
         <<"Wind", self.wind_direction, self.wind_speed>>,
         <<"">>,
         <<"Detail", self.detailed_forecast>>>>

(***************************************************************************)
(* Logging (server.py)                                                     *)
(***************************************************************************)

\* logging.basicConfig(level=logging.INFO): what a record of a level adds to the log
LevelNo == [DEBUG |-> 10, INFO |-> 20]

\* A log without a level threshold
LoggedAtAnyLevel(lg, level, record) == Append(lg, record)

\* logger.info / logger.debug under that configuration
Logged(lg, level, record) ==
    IF LevelNo[level] >= LevelNo["INFO"] THEN Append(lg, record) ELSE lg

(***************************************************************************)
(* State                                                                   *)
(***************************************************************************)

VARIABLES
    srv,             \* server main: index of the next startup step; past the last, it waits in signal.pause()
    run,             \* the server process: "running", "exiting" (the interrupt was handled), "stopped"
    sockFile,        \* whether SOCKET_PATH exists in the file system
    connFile,        \* the file .manager_connection
    instances,       \* how many WeatherService objects were ever constructed
    weather_service, \* main's weather_service: the id of its instance (0: not yet)
    registry,        \* WeatherManager._registry: the typeids registered with a callable
    served,          \* the registry the running manager server was started with
    conn,            \* per client: the server side of its connection
    wire,            \* per client: the request on its way to the server
    reply,           \* per client: the response on its way back
    arg,             \* per handler thread: the location get_weather was called with
    http,            \* per handler thread: the upstream request in flight
    calls,           \* per handler thread: the upstream URLs the call it handles requested, in order
    execs,           \* per connection: how many get_weather executions it started
    fault,           \* per connection: the fault the API's answers carried into its call ("-": no call answered)
    log,             \* per handler thread: the records it wrote to the server log
    pc,              \* per fetch_weather task: its position
    key,             \* per fetch_weather task: the authkey it loaded
    proxy,           \* per fetch_weather task: the instance its proxy refers to (0: none)
    res,             \* per fetch_weather task: what it returned or raised
    mainpc,          \* client main: its position
    results,         \* client main: its results list
    displayed,       \* client main: the client_ids whose forecast it printed, in order
    probe            \* a direct caller of get_weather and to_human_readable: the period it feeds and what comes out

vars ==
    <<srv, run, sockFile, connFile, instances, weather_service, registry, served,
      conn, wire, reply, arg, http, calls, execs, fault, log,
      pc, key, proxy, res, mainpc, results, displayed, probe>>

serverMainVars == <<srv, run, sockFile, connFile, instances, weather_service, registry, served>>

handlerVars == <<arg, http, calls, execs, fault, log>>

clientMainVars == <<mainpc, results, displayed>>

\* Messages, upstream requests and task outcomes all carry a kind
NoMsg == [kind |-> "none"]

NoKey == <<>>

NoLocation == [latitude |-> 0, longitude |-> 0]

\* A main that writes the descriptor before it starts the manager
StartupOrderWriteFirst == <<"unlink", "create", "register", "write", "start">>

\* server.py main: its steps, in program order
StartupOrder == <<"unlink", "create", "register", "start", "write">>

\* The next startup step of main ("pause" once it waits for the signal,
\* "exit" once the signal handler has raised SystemExit)
NextStep ==
    IF run # "running" THEN "exit"
    ELSE IF srv <= Len(StartupOrder) THEN StartupOrder[srv] ELSE "pause"

\* main is past the startup step named
Done(step) == \E i \in 1..(srv - 1) : i <= Len(StartupOrder) /\ StartupOrder[i] = step

\* A listener that outlives the server process
ListeningForever == Done("start")

\* The manager's server accepts connections once start() has returned and
\* until its process has exited
Listening == Done("start") /\ run # "stopped"

\* No direct caller: the service is reached through the manager only
NoProbe == [stage |-> "idle"]

\* Both programs at their start
SystemInit ==
    /\ srv = 1
    /\ run = "running"
    /\ sockFile \in BOOLEAN
    /\ connFile \in LeftoverDescriptors
    /\ instances = 0
    /\ weather_service = 0
    /\ registry = {}
    /\ served = {}
    /\ conn = [c \in Clients |-> "NONE"]
    /\ wire = [c \in Clients |-> NoMsg]
    /\ reply = [c \in Clients |-> NoMsg]
    /\ arg = [c \in Clients |-> NoLocation]
    /\ http = [c \in Clients |-> NoMsg]
    /\ calls = [c \in Clients |-> <<>>]
    /\ execs = [c \in Clients |-> 0]
    /\ fault = [c \in Clients |-> "-"]
    /\ log = [c \in Clients |-> <<>>]
    /\ pc = [c \in Clients |-> "start"]
    /\ key = [c \in Clients |-> NoKey]
    /\ proxy = [c \in Clients |-> 0]
    /\ res = [c \in Clients |-> NoMsg]
    /\ mainpc = "collect"
    /\ results = <<>>
    /\ displayed = <<>>

Init ==
    /\ SystemInit
    /\ probe = NoProbe

(***************************************************************************)
(* server.py main                                                          *)
(***************************************************************************)

\* if os.path.exists(SOCKET_PATH): os.unlink(SOCKET_PATH)
ServerUnlink ==
    /\ NextStep = "unlink"
    /\ sockFile' = FALSE
    /\ srv' = srv + 1
    /\ UNCHANGED <<run, connFile, instances, weather_service, registry, served>>

\* weather_service = WeatherService()
ServerCreateService ==
    /\ NextStep = "create"
    /\ instances' = instances + 1
    /\ weather_service' = instances + 1
    /\ srv' = srv + 1
    /\ UNCHANGED <<run, sockFile, connFile, registry, served>>

\* WeatherManager.register('get_weather_service', callable=lambda: weather_service)
ServerRegister ==
    /\ NextStep = "register"
    /\ registry' = registry \cup {ServiceTypeId}
    /\ srv' = srv + 1
    /\ UNCHANGED <<run, sockFile, connFile, instances, weather_service, served>>

\* manager = WeatherManager(address=SOCKET_PATH, authkey=AUTHKEY); manager.start()
ServerStart ==
    /\ NextStep = "start"
    /\ served' = registry
    /\ sockFile' = TRUE
    /\ srv' = srv + 1
    /\ UNCHANGED <<run, connFile, instances, weather_service, registry>>

\* write_connection_info(SOCKET_PATH, AUTHKEY)
ServerWriteInfo ==
    /\ NextStep = "write"
    /\ connFile' = File(Descriptor(SOCKET_PATH, AUTHKEY))
    /\ srv' = srv + 1
    /\ UNCHANGED <<run, sockFile, instances, weather_service, registry, served>>

ServerMain ==
    /\ \/ ServerUnlink
       \/ ServerCreateService
       \/ ServerRegister
       \/ ServerStart
       \/ ServerWriteInfo
    /\ UNCHANGED <<probe, conn, wire, reply, handlerVars, pc, key, proxy, res, clientMainVars>>

(***************************************************************************)
(* The manager's server: WeatherManager(address, authkey).start()          *)
(***************************************************************************)

\* A handshake that welcomes every peer
AuthenticatesAnyone(authkey, presented) == TRUE

\* The challenge/response handshake succeeds when both ends hold the same key
Authenticates(authkey, presented) == presented = authkey

\* A callable that constructs a WeatherService per resolution
ServiceFactoryPerProxy == [obj |-> instances + 1, instances |-> instances + 1]

\* The registered callable, lambda: weather_service, with the instances it leaves
ServiceFactory == [obj |-> weather_service, instances |-> instances]

\* Whether pickling an exception for the response may succeed: builtin
\* exceptions pickle, the requests library's carry arbitrary objects
PickleOutcomes(exc) == IF exc \in {"KeyError", "IndexError"} THEN {TRUE} ELSE {TRUE, FALSE}

\* The accepter thread: accept a connection, hand it to a new daemon thread
Accept(c) ==
    /\ Listening
    /\ pc[c] = "connecting"
    /\ conn[c] = "NONE"
    /\ conn' = [conn EXCEPT ![c] = "ACCEPTED"]
    /\ UNCHANGED <<probe, serverMainVars, wire, reply, handlerVars, pc, key, proxy, res, clientMainVars>>

\* A handler thread that serves the connection without a handshake
BeginAuthUnchallenged(c) ==
    /\ conn[c] = "ACCEPTED"
    /\ conn' = [conn EXCEPT ![c] = "AUTHENTICATED"]
    /\ reply' = [reply EXCEPT ![c] = [kind |-> "#WELCOME"]]
    /\ UNCHANGED <<probe, serverMainVars, wire, handlerVars, pc, key, proxy, res, clientMainVars>>

\* The handler thread starts: it delivers the challenge
BeginAuth(c) ==
    /\ conn[c] = "ACCEPTED"
    /\ conn' = [conn EXCEPT ![c] = "AUTHENTICATING"]
    /\ UNCHANGED <<probe, serverMainVars, wire, reply, handlerVars, pc, key, proxy, res, clientMainVars>>

\* The handshake ends: welcome, or failure and conn.close()
FinishAuth(c) ==
    /\ conn[c] = "AUTHENTICATING"
    /\ IF Authenticates(AUTHKEY, key[c])
       THEN /\ conn' = [conn EXCEPT ![c] = "AUTHENTICATED"]
            /\ reply' = [reply EXCEPT ![c] = [kind |-> "#WELCOME"]]
       ELSE /\ conn' = [conn EXCEPT ![c] = "CLOSED"]
            /\ reply' = [reply EXCEPT ![c] = [kind |-> "#FAILURE"]]
    /\ UNCHANGED <<probe, serverMainVars, wire, handlerVars, pc, key, proxy, res, clientMainVars>>

\* Server.create: resolve the typeid through the registry, answer with a token
HandleCreate(c) ==
    /\ conn[c] = "AUTHENTICATED"
    /\ wire[c].kind = "create"
    /\ wire' = [wire EXCEPT ![c] = NoMsg]
    /\ IF wire[c].typeid \in served
       THEN /\ reply' = [reply EXCEPT ![c] = [kind |-> "#RETURN", value |-> ServiceFactory.obj]]
            /\ instances' = ServiceFactory.instances
       ELSE /\ reply' = [reply EXCEPT ![c] = [kind |-> "#TRACEBACK"]]
            /\ UNCHANGED instances
    /\ UNCHANGED <<probe, srv, run, sockFile, connFile, weather_service, registry, served,
                   conn, handlerVars, pc, key, proxy, res, clientMainVars>>

\* A session that sends every request a second time
IssueRequestTwice(c, url) ==
    /\ \E hung \in BOOLEAN :
         http' = [http EXCEPT ![c] = [kind |-> "get", url |-> url, hung |-> hung]]
    /\ calls' = [calls EXCEPT ![c] = Append(Append(@, url), url)]

\* self.session.get(url): the request goes out once; the upstream will answer
\* it or leave it hanging
IssueRequest(c, url) ==
    /\ \E hung \in BOOLEAN :
         http' = [http EXCEPT ![c] = [kind |-> "get", url |-> url, hung |-> hung]]
    /\ calls' = [calls EXCEPT ![c] = Append(@, url)]

\* A server that runs one call at a time over all its connections
CanStartCallOneAtATime(c) ==
    /\ conn[c] = "AUTHENTICATED"
    /\ wire[c].kind = "call"
    /\ \A d \in Clients : conn[d] # "HANDLING_CALL"

\* The thread of a connection is free to read the connection's next request:
\* it serves this connection alone and has no call in progress
CanStartCall(c) ==
    /\ conn[c] = "AUTHENTICATED"
    /\ wire[c].kind = "call"

\* A read that leaves the request on the connection
PeekRequest(c) == UNCHANGED wire

\* recv(): the request leaves the connection
TakeRequest(c) == wire' = [wire EXCEPT ![c] = NoMsg]

\* serve_client reads the next request of its connection and calls
\* get_weather, which logs the request and sends the points request
StartCall(c) ==
    /\ CanStartCall(c)
    /\ TakeRequest(c)
    /\ conn' = [conn EXCEPT ![c] = "HANDLING_CALL"]
    /\ execs' = [execs EXCEPT ![c] = @ + 1]
    /\ arg' = [arg EXCEPT ![c] = wire[c].location]
    /\ log' = [log EXCEPT ![c] =
                 Logged(Logged(@, "INFO", "Fetching weather for location"),
                        "DEBUG", "Fetching grid info from")]
    /\ IssueRequest(c, PointsUrl(wire[c].location.latitude, wire[c].location.longitude))
    /\ UNCHANGED <<probe, serverMainVars, reply, fault, pc, key, proxy, res, clientMainVars>>

\* A service that a failed call leaves broken for the calls of the other connections
RespondBrokenByFailure(c, out, pickles) ==
    /\ conn' = [conn EXCEPT ![c] = "AUTHENTICATED"]
    /\ reply' = [reply EXCEPT ![c] =
                   IF \E d \in Clients \ {c} : fault[d] \in {"upstream", "shape"}
                   THEN [kind |-> "#ERROR", exc |-> "RuntimeError"]
                   ELSE IF out.ok THEN [kind |-> "#RETURN", value |-> out.value]
                   ELSE IF pickles THEN [kind |-> "#ERROR", exc |-> out.exc]
                   ELSE [kind |-> "#UNSERIALIZABLE"]]
    /\ http' = [http EXCEPT ![c] = NoMsg]
    /\ arg' = [arg EXCEPT ![c] = NoLocation]
    /\ calls' = [calls EXCEPT ![c] = <<>>]

\* serve_client sends the response of a finished call and waits for the next request
Respond(c, out, pickles) ==
    /\ conn' = [conn EXCEPT ![c] = "AUTHENTICATED"]
    /\ reply' = [reply EXCEPT ![c] =
                   IF out.ok THEN [kind |-> "#RETURN", value |-> out.value]
                   ELSE IF pickles THEN [kind |-> "#ERROR", exc |-> out.exc]
                   ELSE [kind |-> "#UNSERIALIZABLE"]]
    /\ http' = [http EXCEPT ![c] = NoMsg]
    /\ arg' = [arg EXCEPT ![c] = NoLocation]
    /\ calls' = [calls EXCEPT ![c] = <<>>]

\* A session whose requests time out: get() returns though the upstream hangs
ReturnsOrTimesOut(c) == TRUE

\* self.session.get(url) has no timeout: it returns only if the upstream answers
Returns(c) == ~http[c].hung

\* The points request returns: _get_grid_info ends, and on success
\* _get_forecast sends the forecast request
PointsResponse(c) ==
    /\ conn[c] = "HANDLING_CALL"
    /\ http[c].kind = "get" /\ http[c].url[1] = "points" /\ Returns(c)
    /\ \E answer \in PointsAnswers(http[c].url) :
         LET resp == answer.resp
             grid == get_grid_info(resp)
         IN  IF grid.ok
             THEN LET url == ForecastUrl(grid.value[1], grid.value[2], grid.value[3])
                  IN  /\ IssueRequest(c, url)
                      /\ log' = [log EXCEPT ![c] =
                                   Logged(Logged(Logged(@, "DEBUG", "Grid info response status"),
                                                 "DEBUG", "Grid info"),
                                          "DEBUG", "Fetching forecast from")]
                      /\ UNCHANGED <<conn, reply, arg, fault>>
             ELSE /\ \E pickles \in PickleOutcomes(grid.exc) : Respond(c, grid, pickles)
                  /\ fault' = [fault EXCEPT ![c] = answer.fault]
                  /\ log' = [log EXCEPT ![c] =
                               IF resp.kind = "failure" THEN @
                               ELSE Logged(@, "DEBUG", "Grid info response status")]
    /\ UNCHANGED <<probe, serverMainVars, wire, execs, pc, key, proxy, res, clientMainVars>>

\* A service that keeps the location in an attribute the threads share: the
\* one the latest of the running calls has stored
RequestOfSharedAttribute(c) ==
    arg[CHOOSE d \in Clients :
            /\ conn[d] = "HANDLING_CALL"
            /\ \A e \in Clients : conn[e] = "HANDLING_CALL" => e <= d]

\* get_weather's parameter location, local to the call
RequestOf(c) == arg[c]

\* The forecast request returns: _get_forecast ends, get_weather builds the
\* WeatherForecast, logs it and returns it
ForecastResponse(c) ==
    /\ conn[c] = "HANDLING_CALL"
    /\ http[c].kind = "get" /\ http[c].url[1] = "gridpoints" /\ Returns(c)
    /\ \E answer \in ForecastAnswers(http[c].url) :
         LET resp == answer.resp
             out == get_weather(RequestOf(c), resp)
         IN  /\ \E pickles \in (IF out.ok THEN {TRUE} ELSE PickleOutcomes(out.exc)) :
                  Respond(c, out, pickles)
             /\ fault' = [fault EXCEPT ![c] = answer.fault]
             /\ log' = [log EXCEPT ![c] =
                          IF out.ok
                          THEN Logged(Logged(Logged(@, "DEBUG", "Forecast response status"),
                                             "DEBUG", "Retrieved forecast period"),
                                      "INFO", "Weather data sent to client")
                          ELSE IF resp.kind = "failure" THEN @
                          ELSE IF get_forecast(resp).ok
                          THEN Logged(Logged(@, "DEBUG", "Forecast response status"),
                                      "DEBUG", "Retrieved forecast period")
                          ELSE Logged(@, "DEBUG", "Forecast response status")]
    /\ UNCHANGED <<probe, serverMainVars, wire, execs, pc, key, proxy, res, clientMainVars>>

(***************************************************************************)
(* client.py: fetch_weather(client_id) and the loop of main that collects  *)
(***************************************************************************)

Finished(c) == pc[c] \in {"returned", "raised"}

\* A loop body that catches the exception of a failed future and goes on
CollectSkippingFailures(out) ==
    IF mainpc # "collect" THEN UNCHANGED <<mainpc, results>>
    ELSE IF out.kind = "returned"
    THEN /\ results' = Append(results, out)
         /\ UNCHANGED mainpc
    ELSE UNCHANGED <<mainpc, results>>

\* for future in as_completed(futures): client_id, duration, forecast =
\* future.result(); results.append(...): the loop body runs as a future is done
Collect(out) ==
    IF mainpc # "collect" THEN UNCHANGED <<mainpc, results>>
    ELSE IF out.kind = "returned"
    THEN /\ results' = Append(results, out)
         /\ UNCHANGED mainpc
    ELSE /\ mainpc' = "unwind"
         /\ UNCHANGED results

\* The task ends with out: its future is done, its proxy and with it its
\* connection are dropped, and serve_client's thread exits on the EOF
Settle(c, out) ==
    /\ pc' = [pc EXCEPT ![c] = out.kind]
    /\ res' = [res EXCEPT ![c] = out]
    /\ conn' = [conn EXCEPT ![c] = IF @ = "AUTHENTICATED" THEN "CLOSED" ELSE @]
    /\ Collect(out)
    /\ UNCHANGED displayed

Raises(exc) == [kind |-> "raised", exc |-> exc]

\* socket_path, authkey = load_connection_info()
LoadInfo(c) ==
    /\ pc[c] = "start"
    /\ IF connFile.exists
       THEN /\ key' = [key EXCEPT ![c] = LoadDescriptor(connFile.content).authkey]
            /\ pc' = [pc EXCEPT ![c] = "loaded"]
            /\ UNCHANGED <<res, conn, clientMainVars>>
       ELSE /\ Settle(c, Raises("FileNotFoundError"))
            /\ UNCHANGED key
    /\ UNCHANGED <<probe, serverMainVars, wire, reply, handlerVars, proxy>>

\* manager.connect(): connect the socket; the handshake follows
Connect(c) ==
    /\ pc[c] = "loaded"
    /\ IF Listening
       THEN /\ pc' = [pc EXCEPT ![c] = "connecting"]
            /\ UNCHANGED <<res, conn, clientMainVars>>
       ELSE Settle(c, Raises(IF sockFile THEN "ConnectionRefusedError" ELSE "FileNotFoundError"))
    /\ UNCHANGED <<probe, serverMainVars, wire, reply, handlerVars, key, proxy>>

\* manager.connect() returns; manager.get_weather_service() asks for the service
Connected(c) ==
    /\ pc[c] = "connecting"
    /\ reply[c].kind = "#WELCOME"
    /\ reply' = [reply EXCEPT ![c] = NoMsg]
    /\ wire' = [wire EXCEPT ![c] = [kind |-> "create", typeid |-> ServiceTypeId]]
    /\ pc' = [pc EXCEPT ![c] = "resolving"]
    /\ UNCHANGED <<probe, serverMainVars, conn, handlerVars, key, proxy, res, clientMainVars>>

\* manager.connect() raises: the digest sent was rejected
Rejected(c) ==
    /\ pc[c] = "connecting"
    /\ reply[c].kind = "#FAILURE"
    /\ reply' = [reply EXCEPT ![c] = NoMsg]
    /\ Settle(c, Raises("AuthenticationError"))
    /\ UNCHANGED <<probe, serverMainVars, wire, handlerVars, key, proxy>>

\* The proxy is there; weather_service_proxy.get_weather(location) sends the
\* call, for one of the locations
Call(c, locations) ==
    /\ pc[c] = "resolving"
    /\ reply[c].kind # "none"
    /\ reply' = [reply EXCEPT ![c] = NoMsg]
    /\ IF reply[c].kind = "#RETURN"
       THEN /\ proxy' = [proxy EXCEPT ![c] = reply[c].value]
            /\ \E location \in locations :
                 wire' = [wire EXCEPT ![c] =
                            [kind |-> "call", method |-> "get_weather", location |-> location]]
            /\ pc' = [pc EXCEPT ![c] = "calling"]
            /\ UNCHANGED <<res, conn, clientMainVars>>
       ELSE /\ Settle(c, Raises("RemoteError"))
            /\ UNCHANGED <<proxy, wire>>
    /\ UNCHANGED <<probe, serverMainVars, handlerVars, key>>

\* fetch_weather asks for Seattle
Invoke(c) == Call(c, {Seattle})

\* A task that asks for a location of its choice
InvokeAnywhere(c) == Call(c, Locations)

\* A proxy that wraps every failure in RemoteError
CallResultWrapped(msg) ==
    IF msg.kind = "#RETURN" THEN Return(msg.value) ELSE Raise("RemoteError")

\* What the proxy's _callmethod does with a response: the value, or the
\* exception convert_to_error makes of it
CallResult(msg) ==
    IF msg.kind = "#RETURN" THEN Return(msg.value)
    ELSE IF msg.kind = "#ERROR" THEN Raise(msg.exc)
    ELSE Raise("RemoteError")

\* A result numbered by its arrival
TaskResultByArrival(client_id, forecast) ==
    [kind |-> "returned", client_id |-> Len(results) + 1, forecast |-> forecast]

\* return client_id, duration, forecast (the duration, a clock reading, is left out)
TaskResult(client_id, forecast) ==
    [kind |-> "returned", client_id |-> client_id, forecast |-> forecast]

\* get_weather returns or raises in the task
Receive(c) ==
    /\ pc[c] = "calling"
    /\ reply[c].kind # "none"
    /\ reply' = [reply EXCEPT ![c] = NoMsg]
    /\ LET out == CallResult(reply[c])
       IN  Settle(c, IF out.ok
                     THEN TaskResult(c, out.value)
                     ELSE Raises(out.exc))
    /\ UNCHANGED <<probe, serverMainVars, wire, handlerVars, key, proxy>>

(***************************************************************************)
(* client.py: main, after the loop                                         *)
(***************************************************************************)

RECURSIVE Insert(_, _)
\* Insert r behind the entries whose client_id is not greater (a stable sort's step)
Insert(sorted, r) ==
    IF sorted = <<>> THEN <<r>>
    ELSE IF sorted[Len(sorted)].client_id <= r.client_id THEN Append(sorted, r)
    ELSE Append(Insert(SubSeq(sorted, 1, Len(sorted) - 1), r), sorted[Len(sorted)])

RECURSIVE SortByClientId(_)
\* results.sort(key=lambda x: x[0])
SortByClientId(rs) ==
    IF rs = <<>> THEN <<>>
    ELSE Insert(SortByClientId(SubSeq(rs, 1, Len(rs) - 1)), rs[Len(rs)])

\* Every future was collected: the executor is left, the results are sorted
LeavePool ==
    /\ mainpc = "collect"
    /\ \A c \in Clients : Finished(c)
    /\ results' = SortByClientId(results)
    /\ mainpc' = "display"
    /\ UNCHANGED displayed

\* future.result() raised: the executor's exit waits for every task, then
\* the exception leaves main
Unwind ==
    /\ mainpc = "unwind"
    /\ \A c \in Clients : Finished(c)
    /\ mainpc' = "crashed"
    /\ UNCHANGED <<results, displayed>>

\* for client_id, duration, forecast in results: print(...); then the totals
Display ==
    /\ mainpc = "display"
    /\ IF Len(displayed) < Len(results)
       THEN /\ displayed' = Append(displayed, results[Len(displayed) + 1].client_id)
            /\ UNCHANGED mainpc
       ELSE /\ mainpc' = "done"
            /\ UNCHANGED displayed
    /\ UNCHANGED results

ClientMain ==
    /\ \/ LeavePool
       \/ Unwind
       \/ Display
    /\ UNCHANGED <<probe, serverMainVars, conn, wire, reply, handlerVars, pc, key, proxy, res>>

(***************************************************************************)
(* The system                                                              *)
(***************************************************************************)

Handler(c) ==
    \/ BeginAuth(c)
    \/ FinishAuth(c)
    \/ HandleCreate(c)
    \/ StartCall(c)
    \/ PointsResponse(c)
    \/ ForecastResponse(c)

Task(c) ==
    \/ LoadInfo(c)
    \/ Connect(c)
    \/ Connected(c)
    \/ Rejected(c)
    \/ Invoke(c)
    \/ Receive(c)

Next ==
    \/ ServerMain
    \/ \E c \in Clients : Accept(c)
    \/ \E c \in Clients : Handler(c)
    \/ \E c \in Clients : Task(c)
    \/ ClientMain

Spec == Init /\ [][Next]_vars

\* Every thread that can take a step eventually takes one, and the upstream
\* API answers every request it does not leave hanging
Fairness ==
    /\ WF_vars(ServerMain)
    /\ WF_vars(ClientMain)
    /\ \A c \in Clients : WF_vars(Accept(c)) /\ WF_vars(Handler(c)) /\ WF_vars(Task(c))

FairSpec == Spec /\ Fairness

Stuck(c) == http[c].kind = "get" /\ http[c].hung

(***************************************************************************)
(* The service under callers that ask for different locations              *)
(***************************************************************************)

ServiceTask(c) ==
    \/ LoadInfo(c)
    \/ Connect(c)
    \/ Connected(c)
    \/ Rejected(c)
    \/ InvokeAnywhere(c)
    \/ Receive(c)

ServiceNext ==
    \/ ServerMain
    \/ \E c \in Clients : Accept(c)
    \/ \E c \in Clients : Handler(c)
    \/ \E c \in Clients : ServiceTask(c)
    \/ ClientMain

ServiceSpec == Init /\ [][ServiceNext]_vars

(***************************************************************************)
(* Shutdown: SIGINT, signal_handler, the exit of the server process        *)
(***************************************************************************)

\* SIGINT arrives while main runs or waits in signal.pause(): signal_handler
\* logs and calls sys.exit(0), main makes no further step
Interrupt ==
    /\ run = "running"
    /\ run' = "exiting"
    /\ UNCHANGED <<probe, srv, sockFile, connFile, instances, weather_service, registry, served,
                   conn, wire, reply, handlerVars, pc, key, proxy, res, clientMainVars>>

\* An exit that first lets the calls in progress end
CanStopOnceDrained == run = "exiting" /\ \A c \in Clients : conn[c] # "HANDLING_CALL"

\* sys.exit(0) was called: the process exits, whatever its threads are doing
CanStop == run = "exiting"

\* The interpreter exits: a started manager is shut down, its process exits
\* without waiting for its daemon threads and unlinks the socket; the
\* connections die with it. .manager_connection stays.
Stop ==
    /\ CanStop
    /\ run' = "stopped"
    /\ IF Done("start")
       THEN /\ sockFile' = FALSE
            /\ conn' = [c \in Clients |-> IF conn[c] = "NONE" THEN "NONE" ELSE "CLOSED"]
            /\ http' = [c \in Clients |-> NoMsg]
            /\ arg' = [c \in Clients |-> NoLocation]
            /\ calls' = [c \in Clients |-> <<>>]
       ELSE UNCHANGED <<sockFile, conn, http, arg, calls>>
    /\ UNCHANGED <<probe, srv, connFile, instances, weather_service, registry, served,
                   wire, reply, execs, fault, log, pc, key, proxy, res, clientMainVars>>

\* The task waits for a response of a server that is gone: recv() raises EOFError
Dropped(c) ==
    /\ run = "stopped"
    /\ pc[c] \in {"connecting", "resolving", "calling"}
    /\ reply[c].kind = "none"
    /\ Settle(c, Raises("EOFError"))
    /\ UNCHANGED <<probe, serverMainVars, wire, reply, handlerVars, key, proxy>>

ShutdownNext ==
    \/ Next
    \/ Interrupt
    \/ Stop
    \/ \E c \in Clients : Dropped(c)

\* The system with an operator who may interrupt the server at any moment
ShutdownSpec == Init /\ [][ShutdownNext]_vars

\* The exit of an interrupted server and the client's recv() take their steps too
ShutdownFairSpec ==
    /\ ShutdownSpec
    /\ Fairness
    /\ WF_vars(Stop)
    /\ \A c \in Clients : WF_vars(Dropped(c))

(***************************************************************************)
(* A direct caller of WeatherService.get_weather and to_human_readable     *)
(***************************************************************************)

\* How many period keys an upstream answer may lack at once
MaxMissing == 2

\* The values temperatureTrend may have when present, the empty string among them
ProbeTrends == TrendValues \cup {""}

\* The first periods the upstream may answer with: any of the trends, up to
\* MaxMissing keys absent
ProbePeriods ==
    {[k \in PeriodFields \ missing |->
         IF k = "temperatureTrend" THEN trend
         ELSE PeriodValue(ForecastUrl("SEW", Seattle.latitude, Seattle.longitude), 1, k)] :
       missing \in {m \in SUBSET PeriodFields : Cardinality(m) <= MaxMissing},
       trend \in ProbeTrends}

\* The caller has a period for the upstream to answer with
ProbeInit ==
    /\ SystemInit
    /\ ~sockFile
    /\ connFile = NoFile
    /\ probe \in {[stage |-> "given", period |-> p] : p \in ProbePeriods}

probeOnly ==
    <<serverMainVars, conn, wire, reply, handlerVars, pc, key, proxy, res, clientMainVars>>

\* forecast = weather_service.get_weather(seattle_location), answered with the period
ProbeGetWeather ==
    /\ probe.stage = "given"
    /\ probe' = [stage |-> "called", period |-> probe.period,
                 out |-> get_weather(Seattle, Periods(<<probe.period>>))]
    /\ UNCHANGED probeOnly

\* forecast.to_human_readable()
ProbeRender ==
    /\ probe.stage = "called"
    /\ probe.out.ok
    /\ probe' = [stage |-> "rendered", period |-> probe.period, out |-> probe.out,
                 text |-> to_human_readable(probe.out.value)]
    /\ UNCHANGED probeOnly

ProbeNext == ProbeGetWeather \/ ProbeRender

\* get_weather and to_human_readable over the periods the upstream may answer with
ProbeSpec == ProbeInit /\ [][ProbeNext]_vars

(***************************************************************************)
(* Properties                                                              *)
(***************************************************************************)

\* The task called get_weather and has its outcome
Called(c) == Finished(c) /\ execs[c] > 0

ErrorReplies == {"#ERROR", "#UNSERIALIZABLE"}

\* C1: a client that presents a key other than the server's is turned away
\* before any operation runs: its connection never becomes authenticated, no
\* service is resolved and no get_weather is executed on it, and once the
\* handshake is over the connection is closed and the client holds an
\* authentication error.
WrongKeyRejected ==
    \A c \in Clients :
        (key[c] # NoKey /\ key[c] # AUTHKEY) =>
            /\ conn[c] \notin {"AUTHENTICATED", "HANDLING_CALL"}
            /\ execs[c] = 0
            /\ proxy[c] = 0
            /\ wire[c] = NoMsg
            /\ (conn[c] = "CLOSED" => reply[c].kind = "#FAILURE" \/ res[c] = Raises("AuthenticationError"))
            /\ (Finished(c) /\ conn[c] # "NONE" =>
                    conn[c] = "CLOSED" /\ res[c] = Raises("AuthenticationError"))

WrongKeyRejectedWitness ==
    \E c \in Clients :
        /\ key[c] = OtherKey
        /\ conn[c] = "CLOSED"
        /\ res[c] = Raises("AuthenticationError")

\* The transitions of a connection
ConnTransitions ==
    {<<"NONE", "ACCEPTED">>, <<"ACCEPTED", "AUTHENTICATING">>,
     <<"AUTHENTICATING", "AUTHENTICATED">>, <<"AUTHENTICATING", "CLOSED">>,
     <<"AUTHENTICATED", "HANDLING_CALL">>, <<"HANDLING_CALL", "AUTHENTICATED">>,
     <<"AUTHENTICATED", "CLOSED">>, <<"HANDLING_CALL", "CLOSED">>}

\* C2: a connection moves ACCEPTED -> AUTHENTICATING -> (AUTHENTICATED <->
\* HANDLING_CALL) -> CLOSED and in no other way: a handshake that fails goes
\* from AUTHENTICATING to CLOSED directly and one that succeeds to
\* AUTHENTICATED, HANDLING_CALL is entered from AUTHENTICATED only, and
\* nothing leaves CLOSED.
ConnectionStateMachine ==
    [][\A c \in Clients :
          conn'[c] # conn[c] =>
              /\ <<conn[c], conn'[c]>> \in ConnTransitions
              /\ (conn[c] = "AUTHENTICATING" =>
                     (conn'[c] = "CLOSED") = (key[c] # AUTHKEY))]_vars

ConnectionStateMachineWitness ==
    \E c, d \in Clients :
        /\ conn[c] = "CLOSED" /\ res[c] = Raises("AuthenticationError")
        /\ conn[d] = "CLOSED" /\ pc[d] = "returned"

StuckClientBlocksNobody == <>[](\A c \in Clients : Finished(c) \/ Stuck(c))

StuckClientBlocksNobodyWitness ==
    \E c, d \in Clients :
        /\ Stuck(c)
        /\ pc[d] = "returned" /\ execs[d] = 1 /\ fault[d] = "none"

\* C5: of several invocations in progress at once, each one whose own
\* upstream requests are answered without a fault ends with a forecast,
\* whatever becomes of the others; only an invocation whose own upstream
\* answer carried a fault ends with an error.
FailuresIsolated ==
    \A c \in Clients :
        /\ (fault[c] = "none" =>
                /\ reply[c].kind # "none" => reply[c].kind = "#RETURN"
                /\ Finished(c) => pc[c] = "returned")
        /\ (pc[c] = "calling" /\ reply[c].kind \in ErrorReplies =>
                fault[c] \in {"upstream", "shape"})
        /\ (pc[c] = "returned" => fault[c] = "none")

FailuresIsolatedWitness ==
    \E c, d, e \in Clients :
        /\ pc[c] = "calling" /\ pc[d] = "calling" /\ pc[e] = "calling"
        /\ reply[d].kind = "#ERROR"
        /\ conn[e] = "HANDLING_CALL"
        /\ reply[c].kind = "#RETURN"

\* The client_ids main has displayed
Displayed == {displayed[i] : i \in 1..Len(displayed)}

\* C6 as stated: when main has ended, the forecast of every fetch that
\* succeeded has been displayed, whether or not another fetch failed.
SucceededFetchesDisplayed ==
    mainpc \in {"done", "crashed"} =>
        \A c \in Clients : pc[c] = "returned" => c \in Displayed

\* C6: a failed fetch does not keep the other fetches from completing: main
\* ends only when all three tasks have ended, each with its own outcome. Main
\* displays forecasts only if every fetch succeeded, and then all of them in
\* client_id order; if any fetch failed, main ends with that exception and
\* displays no forecast at all.
MainDisplaysAllOrNothing ==
    /\ ((\E c \in Clients : pc[c] = "raised") =>
            displayed = <<>> /\ mainpc \in {"collect", "unwind", "crashed"})
    /\ (mainpc = "crashed" =>
            (\A c \in Clients : Finished(c)) /\ (\E c \in Clients : pc[c] = "raised"))
    /\ (mainpc = "done" =>
            /\ \A c \in Clients : pc[c] = "returned"
            /\ Len(displayed) = NumClients
            /\ \A c \in Clients : displayed[c] = c)

MainDisplaysAllOrNothingWitness ==
    /\ mainpc = "crashed"
    /\ displayed = <<>>
    /\ \E c, d \in Clients : pc[c] = "returned" /\ pc[d] = "raised" /\ execs[d] = 1

\* The error kinds of the service's contract, by the exception that stands for them
ErrorKind ==
    [RequestException |-> "UpstreamError", KeyError |-> "DataShapeError",
     IndexError |-> "DataShapeError"]

\* A forecast for location with every field of the first period of the grid of url
CompleteForecast(f, location, url) ==
    /\ DOMAIN f = {"request"} \cup DOMAIN FieldKey
    /\ f.request = location
    /\ \A k \in RequiredFields : f[k] = PeriodValue(url, 1, FieldKey[k])
    /\ f.temperature_trend \in TrendValues \cup {None}

\* What a call leaves that was made with location, had its last upstream
\* request at url and was answered with fault fl
GetWeatherOutcome(location, url, fl, msg) ==
    \/ /\ msg.kind = "#RETURN"
       /\ fl = "none"
       /\ CompleteForecast(msg.value, location, url)
    \/ /\ msg.kind = "#ERROR"
       /\ msg.exc \in DOMAIN ErrorKind
       /\ ErrorKind[msg.exc] = (IF fl = "upstream" THEN "UpstreamError" ELSE "DataShapeError")
       /\ fl \in {"upstream", "shape"}
    \/ /\ msg.kind = "#UNSERIALIZABLE"
       /\ fl = "upstream"

\* C7: get_weather either returns a complete forecast, whose request is the
\* location it was called with and whose every required field is the value
\* of the first upstream period, or raises: an upstream error when an
\* upstream exchange failed, a data-shape error when the payload lacks an
\* expected key or has no period. It never returns a forecast with a
\* required field missing.
GetWeatherCompleteOrRaises ==
    [][\A c \in Clients :
          (conn[c] = "HANDLING_CALL" /\ conn'[c] # "HANDLING_CALL") =>
              GetWeatherOutcome(arg[c], http[c].url, fault'[c], reply'[c])]_vars

GetWeatherCompleteOrRaisesWitness ==
    \E c, d, e \in Clients :
        /\ pc[c] = "returned" /\ res[c].forecast.request = Seattle
        /\ res[d] = Raises("IndexError")
        /\ res[e] = Raises("RequestException")

\* C8 as stated: an error raised on the server during an invocation reaches
\* the caller as one opaque kind of error, the library's RemoteError,
\* whatever was raised.
ServerErrorIsOpaque ==
    \A c \in Clients :
        (Called(c) /\ fault[c] \in {"upstream", "shape"}) => res[c] = Raises("RemoteError")

\* C8: an error raised on the server during an invocation reaches the
\* caller, and nobody else, as the exception that was raised (the requests
\* library's for a failed upstream exchange, KeyError or IndexError for a
\* payload of the wrong shape), and as a RemoteError only when that exception
\* could not be serialized; the connection's handler goes back to waiting for
\* requests and the server keeps listening.
ServerErrorReachesCaller ==
    \A c \in Clients :
        /\ (Called(c) /\ fault[c] = "upstream" =>
                res[c] \in {Raises("RequestException"), Raises("RemoteError")})
        /\ (Called(c) /\ fault[c] = "shape" =>
                res[c] \in {Raises("KeyError"), Raises("IndexError")})
        /\ (Called(c) /\ pc[c] = "raised" => fault[c] \in {"upstream", "shape"})
        /\ (pc[c] = "calling" /\ reply[c].kind \in ErrorReplies =>
                conn[c] = "AUTHENTICATED" /\ Listening)

ServerErrorReachesCallerWitness ==
    \E c, d \in Clients :
        /\ Called(c) /\ fault[c] = "shape" /\ res[c] = Raises("KeyError")
        /\ pc[d] = "returned"
        /\ Listening

\* The records that tell of a failure: the response's status, an exception
FailureRecords ==
    {"Grid info response status", "Forecast response status", "Traceback"}

\* The call of the connection was answered and failed
CallFailed(c) == conn[c] # "HANDLING_CALL" /\ fault[c] \in {"upstream", "shape"}

\* C9 as stated: for every invocation that failed on the server, the server
\* log holds a record of the failure.
FailureIsLogged ==
    \A c \in Clients :
        CallFailed(c) => \E i \in 1..Len(log[c]) : log[c][i] \in FailureRecords

\* C9: for an invocation that failed on the server the server log holds no
\* record of the failure: the handler's only record is the one written when
\* the invocation began, "Fetching weather for location" (the status records
\* are below the configured level, the exception is not logged); a
\* successful invocation adds "Weather data sent to client".
FailureLeavesNoRecord ==
    \A c \in Clients :
        /\ (CallFailed(c) => log[c] = <<"Fetching weather for location">>)
        /\ (fault[c] = "none" =>
                log[c] = <<"Fetching weather for location", "Weather data sent to client">>)

FailureLeavesNoRecordWitness ==
    \E c, d \in Clients :
        /\ Called(c) /\ fault[c] = "upstream" /\ log[c] = <<"Fetching weather for location">>
        /\ Called(d) /\ fault[d] = "shape" /\ log[d] = <<"Fetching weather for location">>

\* C10: the server process constructs exactly one WeatherService; every
\* resolution of the service, on whatever connection, yields a proxy for
\* that one instance, and serving clients never constructs another.
OneServiceInstance ==
    /\ instances <= 1
    /\ (Listening => instances = 1 /\ weather_service = 1)
    /\ \A c \in Clients : proxy[c] \in {0, weather_service}
    /\ \A c \in Clients : reply[c].kind = "#RETURN" /\ pc[c] = "resolving" =>
            reply[c].value = weather_service

OneServiceInstanceWitness ==
    /\ instances = 1
    /\ \A c \in Clients : proxy[c] = 1

Stopped == run = "stopped"

\* The errors of a connect() that finds nobody listening at the address
Unreachable == {Raises("FileNotFoundError"), Raises("ConnectionRefusedError")}

\* C11: once the interrupted server has exited, nothing is served any more:
\* no connection is open or accepted, no get_weather starts or runs, no
\* service is resolved, and every connection attempt a client makes from
\* then on fails at connect with the error of an unreachable endpoint.
NothingAfterStop ==
    /\ [](Stopped =>
            /\ ~Listening
            /\ \A c \in Clients : conn[c] \in {"NONE", "CLOSED"} /\ http[c] = NoMsg)
    /\ [][Stopped =>
            /\ conn' = conn
            /\ execs' = execs
            /\ instances' = instances
            /\ \A c \in Clients :
                 (pc[c] = "loaded" /\ pc'[c] # "loaded") =>
                     pc'[c] = "raised" /\ res'[c] \in Unreachable]_vars

NothingAfterStopWitness ==
    /\ Stopped
    /\ Done("write")
    /\ ~sockFile
    /\ \E c, d \in Clients :
         /\ key[c] = AUTHKEY /\ conn[c] = "NONE" /\ res[c] = Raises("FileNotFoundError")
         /\ pc[d] = "returned"

\* The call of the connection was started and never answered
Abandoned(c) == Stopped /\ execs[c] = 1 /\ fault[c] = "-"

\* C17: shutdown does not wait for the calls in progress: an interrupted
\* server can exit at once whatever its handler threads are doing, and it
\* does exit, even with threads blocked forever in an upstream request. A
\* call accepted before the shutdown ends completed or abandoned, and an
\* abandoned call delivers no result: its client's call ends with EOFError.
ShutdownNeverWaits ==
    /\ <>[](run # "exiting")
    /\ [](run = "exiting" => ENABLED Stop)
    /\ [](\A c \in Clients :
            Abandoned(c) =>
                /\ reply[c] = NoMsg
                /\ pc[c] \in {"calling", "raised"}
                /\ (Finished(c) => res[c] = Raises("EOFError")))
    /\ [][\A c \in Clients : Abandoned(c) => Abandoned(c)' /\ reply'[c] = NoMsg]_vars

ShutdownNeverWaitsWitness ==
    /\ Stopped
    /\ \E c, d \in Clients :
         /\ Abandoned(c) /\ res[c] = Raises("EOFError")
         /\ execs[d] = 1 /\ fault[d] = "none" /\ pc[d] = "returned"

\* C19: main removes a leftover socket file, creates the service, registers
\* the operation, starts the manager and only then writes the descriptor.
\* So once this run has written the descriptor the server listens with the
\* operation registered: a connect fails only before the descriptor of this
\* run exists or after the server has stopped, and no resolution of the
\* service ever fails. The descriptor stays when the server stops: a client
\* that comes later still loads it, with the server's key.
StartupOrdered ==
    /\ [](Done("write") =>
            /\ Done("unlink") /\ Done("create") /\ Done("register") /\ Done("start")
            /\ connFile = File(Descriptor(SOCKET_PATH, AUTHKEY)))
    /\ [](Done("unlink") /\ ~Done("start") => ~sockFile)
    /\ [](Listening => ServiceTypeId \in served /\ weather_service # 0)
    /\ [](\A c \in Clients : reply[c].kind # "#TRACEBACK")
    /\ [][\A c \in Clients :
            /\ (pc[c] = "loaded" /\ pc'[c] = "raised") => (~Done("write") \/ Stopped)
            /\ (pc[c] = "start" /\ pc'[c] # "start" /\ Done("write")) =>
                   pc'[c] = "loaded" /\ key'[c] = AUTHKEY]_vars

StartupOrderedWitness ==
    /\ Stopped
    /\ connFile = File(Descriptor(SOCKET_PATH, AUTHKEY))
    /\ \E c, d \in Clients :
         /\ pc[c] = "raised" /\ key[c] = AUTHKEY /\ res[c] \in Unreachable
         /\ proxy[d] = 1 /\ key[d] = AUTHKEY

\* C12: main correlates results by the client_id the task was given, not by
\* arrival: whatever the order in which the fetches complete, every collected
\* result is the return value of the task whose client_id it carries, no
\* task contributes twice, and when all succeeded there is exactly one
\* result per task and they are sorted and displayed in ascending client_id.
ResultsCorrelated ==
    /\ \A i \in 1..Len(results) :
         /\ results[i].client_id \in Clients
         /\ pc[results[i].client_id] = "returned"
         /\ res[results[i].client_id] = results[i]
    /\ \A i, j \in 1..Len(results) : i # j => results[i].client_id # results[j].client_id
    /\ (mainpc \in {"display", "done"} =>
            /\ Len(results) = NumClients
            /\ \A i \in 1..Len(results) : results[i].client_id = i)
    /\ \A i \in 1..Len(displayed) : displayed[i] = i

ResultsCorrelatedWitness ==
    /\ mainpc = "collect"
    /\ Len(results) = NumClients
    /\ results[1].client_id = NumClients
    /\ results[NumClients].client_id = 1

\* The period lacks no key other than temperatureTrend
OnlyTrendMayLack(period) == PeriodFields \ DOMAIN period \subseteq {"temperatureTrend"}

\* C13: when the first upstream period has no temperatureTrend key,
\* get_weather succeeds and the forecast's temperature_trend is None, not an
\* error and not the empty string; a trend that is there is passed on as it
\* is; a period that lacks any other key makes get_weather raise.
AbsentTrendIsNone ==
    probe.stage \in {"called", "rendered"} =>
        /\ (OnlyTrendMayLack(probe.period) <=> probe.out.ok)
        /\ (probe.out.ok /\ "temperatureTrend" \notin DOMAIN probe.period =>
                probe.out.value.temperature_trend = None)
        /\ (probe.out.ok /\ "temperatureTrend" \in DOMAIN probe.period =>
                probe.out.value.temperature_trend = probe.period.temperatureTrend)
        /\ (~probe.out.ok => probe.out.exc = "KeyError")

AbsentTrendIsNoneWitness ==
    /\ probe.stage = "called"
    /\ "temperatureTrend" \notin DOMAIN probe.period
    /\ probe.out.ok
    /\ probe.out.value.temperature_trend = None

\* The lines of a text that carry the label
Lines(text, label) == {text[i] : i \in {j \in 1..Len(text) : text[j][1] = label}}

\* The lines every rendering has: the period's name, the temperature with
\* its unit, the short forecast, the wind's direction with its speed
FixedLines(text, f) ==
    /\ Lines(text, "Period") = {<<"Period", f.name>>}
    /\ Lines(text, "Temperature") = {<<"Temperature", f.temperature, f.temperature_unit>>}
    /\ Lines(text, "Conditions") = {<<"Conditions", f.short_forecast>>}
    /\ Lines(text, "Wind") = {<<"Wind", f.wind_direction, f.wind_speed>>}

\* C14 as stated: the text has the trend line exactly when temperature_trend
\* has a value, that is, is not None; the empty string is a value.
TrendLineIffValue ==
    probe.stage = "rendered" =>
        LET f == probe.out.value
        IN  /\ FixedLines(probe.text, f)
            /\ (Lines(probe.text, "Temperature Trend") # {}) <=> (f.temperature_trend # None)

\* C14: the text always has the period's name, the temperature with its
\* unit, the short forecast and the wind's direction with its speed; it has
\* the trend line, with the trend, exactly when temperature_trend is neither
\* None nor the empty string: an empty trend is rendered like no trend.
TrendLineIffNonEmpty ==
    probe.stage = "rendered" =>
        LET f == probe.out.value
        IN  /\ FixedLines(probe.text, f)
            /\ Lines(probe.text, "Temperature Trend") =
                   (IF f.temperature_trend \in {None, ""} THEN {}
                    ELSE {<<"Temperature Trend", f.temperature_trend>>})

TrendLineIffNonEmptyWitness ==
    /\ probe.stage = "rendered"
    /\ probe.out.value.temperature_trend = ""
    /\ Lines(probe.text, "Temperature Trend") = {}
    /\ Len(probe.text) = 8

\* The two requests of a call for location: the points of the location, then
\* the forecast of the grid the upstream assigns to it
OwnCalls(location) ==
    LET grid == GridOf(location.latitude, location.longitude)
    IN  <<<<"points", location.latitude, location.longitude>>,
          <<"gridpoints", grid.gridId, grid.gridX, grid.gridY>>>>

\* C15: each get_weather issues its upstream requests in the order points,
\* forecast, each once, for its own location, whatever other calls asked
\* before: the forecast request goes out only after the points request
\* returned and is for the grid the points answer named; a call whose points
\* request failed ends with that error and issues no forecast request; a call
\* that succeeds has issued exactly one points and one forecast request.
UpstreamCallsInOrder ==
    /\ [](\A c \in Clients :
            IF conn[c] = "HANDLING_CALL"
            THEN /\ calls[c] \in {SubSeq(OwnCalls(arg[c]), 1, 1), OwnCalls(arg[c])}
                 /\ http[c].url = calls[c][Len(calls[c])]
            ELSE calls[c] = <<>>)
    /\ [][\A c \in Clients :
            /\ (conn[c] = "HANDLING_CALL" /\ conn'[c] = "HANDLING_CALL" /\ calls'[c] # calls[c]) =>
                   /\ Len(calls[c]) = 1
                   /\ calls'[c] = OwnCalls(arg[c])
            /\ (conn[c] = "HANDLING_CALL" /\ conn'[c] # "HANDLING_CALL") =>
                   /\ (reply'[c].kind = "#RETURN" => calls[c] = OwnCalls(arg[c]))
                   /\ (Len(calls[c]) = 1 => reply'[c].kind \in ErrorReplies)]_vars

UpstreamCallsInOrderWitness ==
    \E c, d, e \in Clients :
        /\ conn[c] = "HANDLING_CALL" /\ calls[c] = OwnCalls(Seattle)
        /\ pc[d] = "returned" /\ res[d].forecast.request = Seattle
        /\ Called(e) /\ pc[e] = "raised"

\* C16: nothing in the stack times out or cancels. Under fair scheduling, if
\* no upstream request hangs, every invocation brings its caller a result or
\* an error, every task ends and main terminates. A request that hangs,
\* hangs forever: its call never completes, its handler thread stays in the
\* call, its client stays in get_weather and main never gets past
\* collecting results.
NoTimeoutAnywhere ==
    /\ <>[]((\E c \in Clients : Stuck(c)) \/
            (mainpc \in {"done", "crashed"} /\ \A c \in Clients : Finished(c)))
    /\ [][\A c \in Clients : Stuck(c) => Stuck(c)']_vars
    /\ [](\A c \in Clients :
            Stuck(c) =>
                /\ conn[c] = "HANDLING_CALL"
                /\ pc[c] = "calling"
                /\ reply[c] = NoMsg
                /\ fault[c] = "-"
                /\ mainpc \in {"collect", "unwind"})

NoTimeoutAnywhereWitness ==
    /\ mainpc = "collect"
    /\ \E c \in Clients :
         /\ Stuck(c) /\ http[c].url[1] = "gridpoints"
         /\ \A d \in Clients \ {c} : pc[d] = "returned"

\* C18: calls that run at the same time on the one service, for different
\* locations, do not mix: a call works on the location its own request
\* carried, asks the upstream for that location only, and the forecast it
\* returns has that location as its request and the values of the period
\* the upstream holds for that location's grid; the client receives that
\* very forecast.
CallsDoNotInterfere ==
    /\ [](\A c \in Clients :
            conn[c] = "HANDLING_CALL" =>
                /\ arg[c] \in Locations
                /\ calls[c][1] = OwnCalls(arg[c])[1]
                /\ http[c].url \in {OwnCalls(arg[c])[1], OwnCalls(arg[c])[2]})
    /\ [][\A c \in Clients :
            /\ (wire[c].kind = "call" /\ wire'[c] = NoMsg) => arg'[c] = wire[c].location
            /\ (conn[c] = "HANDLING_CALL" /\ conn'[c] # "HANDLING_CALL" /\ reply'[c].kind = "#RETURN") =>
                   CompleteForecast(reply'[c].value, arg[c], OwnCalls(arg[c])[2])
            /\ (pc[c] = "calling" /\ pc'[c] = "returned") =>
                   res'[c].forecast = reply[c].value]_vars

CallsDoNotInterfereWitness ==
    \E c, d, e \in Clients :
        /\ conn[c] = "HANDLING_CALL" /\ conn[d] = "HANDLING_CALL"
        /\ arg[c] = Seattle /\ arg[d] # Seattle
        /\ pc[e] = "calling" /\ reply[e].kind = "#RETURN"
        /\ reply[e].value.request # Seattle

=============================================================================
